---- MODULE Spec2Model ----
(***************************************************************************)
(* A model of src/lamda_function.py: the Bedrock-agent handler that        *)
(* fetches a repository's files from the hosting API, has a model analyse  *)
(* and remediate each one, and publishes the result on a new branch.       *)
(*                                                                         *)
(* Text is a sequence of one-character strings, so that endswith, split,   *)
(* strip, re.sub and replace are computed, character by character.  A dict *)
(* is a sequence of <<key, value>> pairs in insertion order.               *)
(***************************************************************************)
EXTENDS Integers, Sequences, FiniteSets, TLC

VARIABLES
    pc,            \* where the invocation is
    event,         \* the inbound event of lambda_handler
    locals,        \* lambda_handler's bound local names and their values
    exc,           \* the exception in flight, or NoExc
    response,      \* what lambda_handler returned, or None
    log,           \* the requests issued so far (hosting and model), in order
    host,          \* the hosting service's repository: refs, commits, trees, blobs
    stack,         \* fetch_repository_contents: one frame per active call
    code_repo,     \* the FileMap fetch_repository_contents returned, or None
    ana,           \* analyze_and_remediate_code: its arguments and loop locals
    remediations,  \* the RemediationMap being built / returned
    cnb,           \* create_new_branch: its arguments and locals
    runs           \* how many invocations have been started

vars == <<pc, event, locals, exc, response, log, host, stack, code_repo, ana,
          remediations, cnb, runs>>

NoExc == [type |-> "none", msg |-> ""]

-----------------------------------------------------------------------------
(* Bounds of the model *)

\* files in the repository's base tree
MaxFiles == 2
\* pieces a model completion is put together from (remediate_code's inputs)
MaxPieces == 3
\* invocations on the same repository
MaxRuns == 2

-----------------------------------------------------------------------------
(* Text *)

Whitespace == {" ", "\n"}

LowerCase == {"a", "b", "c", "d", "e", "f", "g", "h", "i", "j", "k", "l", "m",
              "n", "o", "p", "q", "r", "s", "t", "u", "v", "w", "x", "y", "z"}

\* s[i..] starts with p
StartsWithAt(s, i, p) ==
    /\ i + Len(p) - 1 <= Len(s)
    /\ \A k \in 1..Len(p) : s[i + k - 1] = p[k]

startswith(s, p) == StartsWithAt(s, 1, p)

endswith(s, p) ==
    /\ Len(p) <= Len(s)
    /\ StartsWithAt(s, Len(s) - Len(p) + 1, p)

Contains(s, p) == \E i \in 1..(Len(s) + 1) : StartsWithAt(s, i, p)

\* the least element of a non-empty set of numbers
Min(S) == CHOOSE x \in S : \A y \in S : x <= y

LStrip(s) ==
    LET stops == {i \in 1..(Len(s) + 1) : i = Len(s) + 1 \/ s[i] \notin Whitespace}
    IN SubSeq(s, Min(stops), Len(s))

RStrip(s) ==
    LET keeps == {i \in 1..Len(s) : s[i] \notin Whitespace}
    IN IF keeps = {} THEN <<>>
       ELSE SubSeq(s, 1, CHOOSE i \in keeps : \A j \in keeps : j <= i)

strip(s) == RStrip(LStrip(s))

\* the places at or after i where p occurs in s
Occurrences(s, p, i) == {k \in i..Len(s) : StartsWithAt(s, k, p)}

\* str.replace(p, ""): the occurrences of p found left to right, none
\* overlapping, are dropped, in one pass
RECURSIVE RemoveAll(_, _, _)
RemoveAll(s, p, i) ==
    IF Occurrences(s, p, i) = {} THEN SubSeq(s, i, Len(s))
    ELSE LET k == Min(Occurrences(s, p, i))
         IN SubSeq(s, i, k - 1) \o RemoveAll(s, p, k + Len(p))

\* the first place at or after i that holds no lowercase letter
SkipLower(s, i) ==
    Min({k \in i..(Len(s) + 1) : k = Len(s) + 1 \/ s[k] \notin LowerCase})

\* the backquote character (U+0060), which a TLA+ string cannot hold
Backquote == "BQ"

Fence == <<Backquote, Backquote, Backquote>>

\* re.sub(Fence + "[a-z]*", "", s): each match is a fence and the lowercase
\* letters after it (greedy); the scan goes on after the match
RECURSIVE ReSubFence(_, _)
ReSubFence(s, i) ==
    IF Occurrences(s, Fence, i) = {} THEN SubSeq(s, i, Len(s))
    ELSE LET k == Min(Occurrences(s, Fence, i))
         IN SubSeq(s, i, k - 1) \o ReSubFence(s, SkipLower(s, k + 3))

\* "/".join(segs)
RECURSIVE Join(_)
Join(segs) ==
    IF segs = <<>> THEN <<>>
    ELSE IF Len(segs) = 1 THEN segs[1]
    ELSE segs[1] \o <<"/">> \o Join(Tail(segs))

\* s.split("/")
RECURSIVE Split(_)
Split(s) ==
    IF \A i \in 1..Len(s) : s[i] # "/" THEN <<s>>
    ELSE LET i == CHOOSE k \in 1..Len(s) :
                      s[k] = "/" /\ \A j \in 1..(k - 1) : s[j] # "/"
         IN <<SubSeq(s, 1, i - 1)>> \o Split(SubSeq(s, i + 1, Len(s)))

RECURSIVE Concat(_)
Concat(ss) == IF ss = <<>> THEN <<>> ELSE Head(ss) \o Concat(Tail(ss))

-----------------------------------------------------------------------------
(* dict: a sequence of <<key, value>> pairs, keys distinct, insertion order *)

Keys(d) == {d[i][1] : i \in 1..Len(d)}

Get(d, k) == LET i == CHOOSE j \in 1..Len(d) : d[j][1] = k IN d[i][2]

\* d[k] = v
Put(d, k, v) ==
    IF k \in Keys(d)
    THEN [i \in 1..Len(d) |-> IF d[i][1] = k THEN <<k, v>> ELSE d[i]]
    ELSE Append(d, <<k, v>>)

\* d.update(e)
RECURSIVE Update(_, _)
Update(d, e) ==
    IF e = <<>> THEN d ELSE Update(Put(d, Head(e)[1], Head(e)[2]), Tail(e))

RECURSIVE SetToSeq(_)
SetToSeq(S) ==
    IF S = {} THEN <<>>
    ELSE LET x == CHOOSE y \in S : TRUE IN <<x>> \o SetToSeq(S \ {x})

-----------------------------------------------------------------------------
(* remediate_code's post-processing, lines 98-105 *)

Boilerplate ==
    << "H", "e", "r", "e", " ", "i", "s", " ", "t", "h", "e", " ",
       "f", "i", "x", "e", "d", " ", "c", "o", "d", "e", " ", "w",
       "i", "t", "h", "o", "u", "t", " ", "a", "n", "y", " ", "a",
       "d", "d", "i", "t", "i", "o", "n", "a", "l", " ", "e", "x",
       "p", "l", "a", "n", "a", "t", "i", "o", "n", "s", " ", "o",
       "r", " ", "s", "u", "m", "m", "a", "r", "i", "e", "s", ":" >>

\* the completion as remediate_code returns it
StripRemediation(completion) ==
    LET r0 == strip(completion)
        r1 == strip(ReSubFence(r0, 1))
        r2 == strip(RemoveAll(r1, Boilerplate, 1))
    IN r2

-----------------------------------------------------------------------------
(* Optional values: None, or a value *)

None == <<>>
Some(v) == <<v>>
Val(o) == o[1]

-----------------------------------------------------------------------------
(* The hosting service.  An object's sha stands for its content, so the     *)
(* model names an object by its content: a blob is its text, a tree is a   *)
(* function from file paths to blobs, a commit is a record of its tree,     *)
(* its parents and its message.  refs maps a branch name to a commit.       *)

\* the body of a non-success response, as .text gives it
ErrorBody == <<"4", "0", "4">>

\* the text of every file of the repository before remediation
Original == <<"o">>

RepoLink == "https://github.com/o/r"

IsPrefix(p, q) == Len(p) <= Len(q) /\ SubSeq(q, 1, Len(p)) = p

\* the segments of a directory path; the root "" has none
DirSegs(path) == IF path = <<>> THEN <<>> ELSE Split(path)

\* GET /repos/{repo}/contents/{path}?ref={branch}: the entries of directory
\* path in tree, one per name, a "dir" or a "file", in the service's order
Listing(tree, path) ==
    LET d == DirSegs(path)
        under == {f \in DOMAIN tree :
                      Len(Split(f)) > Len(d) /\ IsPrefix(d, Split(f))}
        names == {Split(f)[Len(d) + 1] : f \in under}
        item(n) ==
            LET p == Join(d \o <<n>>)
            IN [type |-> IF p \in DOMAIN tree THEN "file" ELSE "dir",
                path |-> p]
    IN SetToSeq({item(n) : n \in names})

\* a tree of the entries alone, the base tree forgotten
LayerTreeNoBase(base, entries) ==
    [p \in {entries[i].path : i \in 1..Len(entries)} |->
        LET i == CHOOSE j \in 1..Len(entries) : entries[j].path = p
        IN entries[i].sha]

\* POST /git/trees with base_tree: the entries layered on the base tree
LayerTree(base, entries) ==
    LET new == {entries[i].path : i \in 1..Len(entries)}
        sha(p) == LET i == CHOOSE j \in 1..Len(entries) :
                               /\ entries[j].path = p
                               /\ \A k \in (j + 1)..Len(entries) :
                                      entries[k].path # p
                  IN entries[i].sha
    IN [p \in DOMAIN base \cup new |-> IF p \in new THEN sha(p) ELSE base[p]]

HasRef(h, name) == name \in DOMAIN h.refs

-----------------------------------------------------------------------------
(* Inputs *)

\* directories of the repository, as segment lists
Dirs == { <<>>, << <<"a">> >>, << <<"b">> >>, << <<"a">>, <<"b">> >>,
          << <<"b">>, <<"a">> >>, << <<"a">>, <<"a">>, <<"b">> >> }

FileNames == { <<"b">>, <<"a", ".", "m">>, <<"m">> }

AllPaths == {Join(d \o <<n>>) : d \in Dirs, n \in FileNames}

\* no file of the set is a directory of another
IsTreeShape(S) ==
    \A f \in S : \A g \in S :
        f # g => ~IsPrefix(Split(f), Split(g))

RECURSIVE SubsetsUpTo(_, _)
SubsetsUpTo(S, n) ==
    IF n = 0 THEN {{}}
    ELSE LET smaller == SubsetsUpTo(S, n - 1)
         IN smaller \cup {T \cup {x} : T \in smaller, x \in S}

FileSets == {S \in SubsetsUpTo(AllPaths, MaxFiles) : S # {} /\ IsTreeShape(S)}

TreeOf(S) == [p \in S |-> Original]

RootCommit(S) ==
    [tree |-> TreeOf(S), parents |-> <<>>, message |-> "init", when |-> 0]

\* a repository whose branch main holds the files S
HostWith(S) ==
    [refs    |-> [b \in {"main"} |-> RootCommit(S)],
     commits |-> {RootCommit(S)},
     trees   |-> {TreeOf(S)},
     blobs   |-> {Original}]

\* folders_to_exclude: None and the empty list are both falsy, and are {} here
ExcludeSets == SUBSET { <<"a">>, <<"b">> }

\* file_extensions_to_exclude
ExtLists == { Some(<<>>), Some(<< <<".", "m">> >>), Some(<< <<"m">> >>),
              Some(<< <<".", "m">>, <<"b">> >>), Some(<< <<>> >>), None }

-----------------------------------------------------------------------------
(* Requests *)

\* a request: the source line that makes it, what it asks, and whether the
\* response is a success
Req(line, op, arg, ok) == [line |-> line, op |-> op, arg |-> arg, ok |-> ok]

HostWrites == {"POST ref", "POST blob", "POST tree", "POST commit", "PATCH ref"}
ModelCalls == {"invoke analyze", "invoke remediate"}

Count(ops) == Cardinality({i \in 1..Len(log) : log[i].op \in ops})

Exc(type, msg) == [type |-> type, msg |-> msg]

-----------------------------------------------------------------------------
(* fetch_repository_contents, lines 30-50.  One frame per active call:     *)
(* its arguments, where it is ("enter": before line 31; "loop": in the for *)
(* loop of line 37), the items still to visit, and its files dict.         *)

Frame(repo_link, branch, path, exclude_folders) ==
    [repo_link |-> repo_link, branch |-> branch, path |-> path,
     exclude_folders |-> exclude_folders,
     state |-> "enter", items |-> <<>>, files |-> <<>>]

Top == stack[Len(stack)]

SetTop(f) == [stack EXCEPT ![Len(stack)] = f]

\* item["path"].split("/")[-1]
FolderName(item) == LET segs == Split(item.path) IN segs[Len(segs)]

\* an exclusion that looks at the folder's whole path, not at its name
IsExcludedByPath(frame, item) ==
    frame.exclude_folders # {} /\ item.path \in frame.exclude_folders

\* line 41: exclude_folders and folder_name in exclude_folders
IsExcluded(frame, item) ==
    frame.exclude_folders # {} /\ FolderName(item) \in frame.exclude_folders

\* the tree the branch's listing is served from
ServedTree(branch) == host.refs[branch].tree

\* lines 31-34 with repo_link None: urlparse(None).path is bytes, and
\* bytes.strip('/') raises TypeError before any request
fetch_bad_link ==
    /\ pc = "fetch"
    /\ Top.state = "enter"
    /\ Top.repo_link = None
    /\ exc' = Exc("TypeError", "a bytes-like object is required, not 'str'")
    /\ stack' = <<>>
    /\ pc' = "fetch_exc"
    /\ UNCHANGED <<event, locals, response, log, host, code_repo, ana,
                   remediations, cnb, runs>>

\* lines 31-36: the listing request and raise_for_status
fetch_list ==
    /\ pc = "fetch"
    /\ Top.state = "enter"
    /\ Top.repo_link # None
    /\ \E ok \in {b \in BOOLEAN : b => HasRef(host, Top.branch)} :
          /\ log' = Append(log, Req(33, "GET contents", Top.path, ok))
          /\ IF ok
             THEN /\ stack' = SetTop([Top EXCEPT
                                 !.state = "loop",
                                 !.items = Listing(ServedTree(Top.branch), Top.path)])
                  /\ UNCHANGED <<pc, exc>>
             ELSE /\ exc' = Exc("HTTPError", "Client Error")
                  /\ stack' = <<>>
                  /\ pc' = "fetch_exc"
    /\ UNCHANGED <<event, locals, response, host, code_repo, ana,
                   remediations, cnb, runs>>

\* lines 39-43: an excluded folder is skipped
fetch_skip_folder ==
    /\ pc = "fetch"
    /\ Top.state = "loop"
    /\ Top.items # <<>>
    /\ Head(Top.items).type = "dir"
    /\ IsExcluded(Top, Head(Top.items))
    /\ stack' = SetTop([Top EXCEPT !.items = Tail(@)])
    /\ UNCHANGED <<pc, event, locals, exc, response, log, host, code_repo,
                   ana, remediations, cnb, runs>>

\* line 45: the recursive call on a folder that is not excluded
fetch_descend ==
    /\ pc = "fetch"
    /\ Top.state = "loop"
    /\ Top.items # <<>>
    /\ Head(Top.items).type = "dir"
    /\ ~IsExcluded(Top, Head(Top.items))
    /\ stack' = Append(SetTop([Top EXCEPT !.items = Tail(@)]),
                       Frame(Top.repo_link, Top.branch, Head(Top.items).path,
                             Top.exclude_folders))
    /\ UNCHANGED <<pc, event, locals, exc, response, log, host, code_repo,
                   ana, remediations, cnb, runs>>

\* the text of a download response: the file, or the error's body
DownloadText(branch, path, ok) ==
    IF ok THEN ServedTree(branch)[path] ELSE ErrorBody

\* lines 46-48: the download; its status is not looked at
fetch_download ==
    /\ pc = "fetch"
    /\ Top.state = "loop"
    /\ Top.items # <<>>
    /\ Head(Top.items).type = "file"
    /\ \E ok \in BOOLEAN :
          LET item == Head(Top.items)
          IN /\ log' = Append(log, Req(47, "GET raw", item.path, ok))
             /\ stack' = SetTop([Top EXCEPT
                   !.items = Tail(@),
                   !.files = Put(@, item.path,
                                 DownloadText(Top.branch, item.path, ok))])
    /\ UNCHANGED <<pc, event, locals, exc, response, host, code_repo, ana,
                   remediations, cnb, runs>>

\* line 50 in a recursive call: the caller's files.update(...) of line 45
fetch_return_inner ==
    /\ pc = "fetch"
    /\ Top.state = "loop"
    /\ Top.items = <<>>
    /\ Len(stack) > 1
    /\ LET caller == stack[Len(stack) - 1]
       IN stack' = Append(SubSeq(stack, 1, Len(stack) - 2),
                          [caller EXCEPT !.files = Update(@, Top.files)])
    /\ UNCHANGED <<pc, event, locals, exc, response, log, host, code_repo,
                   ana, remediations, cnb, runs>>

\* line 50 in the outermost call: the FileMap goes to the caller
fetch_return ==
    /\ pc = "fetch"
    /\ Top.state = "loop"
    /\ Top.items = <<>>
    /\ Len(stack) = 1
    /\ code_repo' = Some(Top.files)
    /\ stack' = <<>>
    /\ pc' = "fetch_ret"
    /\ UNCHANGED <<event, locals, exc, response, log, host, ana,
                   remediations, cnb, runs>>

fetch_repository_contents ==
    \/ fetch_bad_link
    \/ fetch_list
    \/ fetch_skip_folder
    \/ fetch_descend
    \/ fetch_download
    \/ fetch_return_inner
    \/ fetch_return

-----------------------------------------------------------------------------
(* Initial states *)

NoEvent == [keys |-> {}, parameters |-> <<>>]

\* the caller's names: lambda_handler's locals (bound: which of agent,
\* actionGroup and function are assigned), or a direct caller's arguments
Locals(repo_link, branch, non_code_exts, exclude_folders, new_branch_name) ==
    [bound |-> {}, repo_link |-> repo_link, branch |-> branch,
     non_code_exts |-> non_code_exts, exclude_folders |-> exclude_folders,
     new_branch_name |-> new_branch_name]

NoAna == [state |-> "idle", todo |-> <<>>, issues |-> <<>>, completion |-> <<>>]
NoCnb == [state |-> "idle"]

\* fetch_repository_contents called on its own
InitFetch ==
    /\ pc = "fetch"
    /\ event = NoEvent
    /\ \E link \in {Some(RepoLink), None} : \E ex \in ExcludeSets :
          locals = Locals(link, "main", None, ex, "fix")
    /\ exc = NoExc
    /\ response = None
    /\ log = <<>>
    /\ \E S \in FileSets : host = HostWith(S)
    /\ stack = <<Frame(locals.repo_link, locals.branch, <<>>,
                       locals.exclude_folders)>>
    /\ code_repo = None
    /\ ana = NoAna
    /\ remediations = <<>>
    /\ cnb = NoCnb
    /\ runs = 1

SpecFetch == InitFetch /\ [][fetch_repository_contents]_vars

-----------------------------------------------------------------------------
(* analyze_and_remediate_code, lines 52-115 *)

\* the categories of the pattern of line 69
IssuePhrases == {"potential security vulnerability", "code style issue",
                 "performance issue", "code complexity issue", "potential bug"}

\* re.findall of line 69 on an analysis given as its phrases in order
FindIssues(analysis) == SelectSeq(analysis, LAMBDA w : w \in IssuePhrases)

\* completions of the analysis prompt
AnalysisTexts == { <<"looks fine">>,
                   <<"there is a", "potential bug", "and a", "code style issue">> }

\* completions of the remediation prompt
RemediationTexts ==
    { <<"y">>,
      Fence \o <<"j", "\n", "y", "\n">> \o Fence,
      Boilerplate \o <<"\n", "z">> }

\* a test that looks at the first excluded suffix only
IsNonCodeFirstExt(file_path, non_code_exts) ==
    non_code_exts # <<>> /\ endswith(file_path, non_code_exts[1])

\* line 109: any(file_path.endswith(ext) for ext in non_code_exts)
IsNonCode(file_path, non_code_exts) ==
    \E i \in 1..Len(non_code_exts) : endswith(file_path, non_code_exts[i])

CurPath == Head(ana.todo)[1]

\* line 108 with non_code_exts None: the generator of line 109 cannot
\* iterate it
analyze_bad_exts ==
    /\ pc = "ana"
    /\ ana.state = "loop"
    /\ ana.todo # <<>>
    /\ locals.non_code_exts = None
    /\ exc' = Exc("TypeError", "'NoneType' object is not iterable")
    /\ ana' = NoAna
    /\ remediations' = <<>>
    /\ pc' = "ana_exc"
    /\ UNCHANGED <<event, locals, response, log, host, stack, code_repo,
                   cnb, runs>>

\* lines 109-111: a non-code file is skipped
analyze_skip ==
    /\ pc = "ana"
    /\ ana.state = "loop"
    /\ ana.todo # <<>>
    /\ locals.non_code_exts # None
    /\ IsNonCode(CurPath, Val(locals.non_code_exts))
    /\ ana' = [ana EXCEPT !.todo = Tail(@)]
    /\ UNCHANGED <<pc, event, locals, exc, response, log, host, stack,
                   code_repo, remediations, cnb, runs>>

\* line 112, analyze_code: the model call and the issues found in its text
analyze_code ==
    /\ pc = "ana"
    /\ ana.state = "loop"
    /\ ana.todo # <<>>
    /\ locals.non_code_exts # None
    /\ ~IsNonCode(CurPath, Val(locals.non_code_exts))
    /\ \/ \E text \in AnalysisTexts :
             /\ log' = Append(log, Req(55, "invoke analyze", CurPath, TRUE))
             /\ ana' = [ana EXCEPT !.state = "remediate",
                                   !.issues = FindIssues(text)]
             /\ UNCHANGED <<pc, exc, remediations>>
       \/ /\ log' = Append(log, Req(55, "invoke analyze", CurPath, FALSE))
          /\ exc' = Exc("ClientError", "InvokeModel failed")
          /\ ana' = NoAna
          /\ remediations' = <<>>
          /\ pc' = "ana_exc"
    /\ UNCHANGED <<event, locals, response, host, stack, code_repo, cnb, runs>>

\* line 113, remediate_code up to line 99: the model call, whatever the issues
remediate_code_invoke ==
    /\ pc = "ana"
    /\ ana.state = "remediate"
    /\ \/ \E text \in RemediationTexts :
             /\ log' = Append(log, Req(84, "invoke remediate", CurPath, TRUE))
             /\ ana' = [ana EXCEPT !.state = "strip", !.completion = text]
             /\ UNCHANGED <<pc, exc, remediations>>
       \/ /\ log' = Append(log, Req(84, "invoke remediate", CurPath, FALSE))
          /\ exc' = Exc("ClientError", "InvokeModel failed")
          /\ ana' = NoAna
          /\ remediations' = <<>>
          /\ pc' = "ana_exc"
    /\ UNCHANGED <<event, locals, response, host, stack, code_repo, cnb, runs>>

\* lines 99-105 and 114: the completion is cleaned and stored under the path
remediate_code_strip ==
    /\ pc = "ana"
    /\ ana.state = "strip"
    /\ remediations' = Put(remediations, CurPath,
                           StripRemediation(ana.completion))
    /\ ana' = [ana EXCEPT !.state = "loop", !.todo = Tail(@),
                          !.issues = <<>>, !.completion = <<>>]
    /\ UNCHANGED <<pc, event, locals, exc, response, log, host, stack,
                   code_repo, cnb, runs>>

\* line 115
analyze_return ==
    /\ pc = "ana"
    /\ ana.state = "loop"
    /\ ana.todo = <<>>
    /\ ana' = NoAna
    /\ pc' = "ana_ret"
    /\ UNCHANGED <<event, locals, exc, response, log, host, stack, code_repo,
                   remediations, cnb, runs>>

analyze_and_remediate_code ==
    \/ analyze_bad_exts
    \/ analyze_skip
    \/ analyze_code
    \/ remediate_code_invoke
    \/ remediate_code_strip
    \/ analyze_return

\* line 108: the loop starts on code_repo.items()
EnterAnalyze(repo) == [NoAna EXCEPT !.state = "loop", !.todo = repo]

\* a FileMap of the files S, as a fetch without failures returns it
FileMapOf(S) == [i \in 1..Cardinality(S) |-> <<SetToSeq(S)[i], Original>>]

\* analyze_and_remediate_code called on its own
InitAnalyze ==
    /\ pc = "ana"
    /\ event = NoEvent
    /\ \E exts \in ExtLists : locals = Locals(Some(RepoLink), "main", exts, {}, "fix")
    /\ exc = NoExc
    /\ response = None
    /\ log = <<>>
    /\ \E S \in FileSets \cup {{}} :
          /\ host = HostWith(S)
          /\ code_repo = Some(FileMapOf(S))
    /\ stack = <<>>
    /\ ana = EnterAnalyze(Val(code_repo))
    /\ remediations = <<>>
    /\ cnb = NoCnb
    /\ runs = 1

SpecAnalyze == InitAnalyze /\ [][analyze_and_remediate_code]_vars

\* what completions are put together from
Pieces == { <<Backquote>>, <<Backquote, Backquote>>, <<"j">>, <<"X">>, <<" ">>,
            Boilerplate, SubSeq(Boilerplate, 1, 23),
            SubSeq(Boilerplate, 24, Len(Boilerplate)) }

RECURSIVE PieceLists(_)
PieceLists(n) ==
    IF n = 0 THEN {<<>>}
    ELSE LET shorter == PieceLists(n - 1)
         IN shorter \cup {Append(l, p) : l \in shorter, p \in Pieces}

Completions == {Concat(l) : l \in PieceLists(MaxPieces)}

\* remediate_code on one file, from the completion's arrival on
InitRemediate ==
    /\ pc = "ana"
    /\ event = NoEvent
    /\ locals = Locals(Some(RepoLink), "main", Some(<<>>), {}, "fix")
    /\ exc = NoExc
    /\ response = None
    /\ log = <<Req(55, "invoke analyze", <<"b">>, TRUE),
               Req(84, "invoke remediate", <<"b">>, TRUE)>>
    /\ host = HostWith({<<"b">>})
    /\ code_repo = Some(FileMapOf({<<"b">>}))
    /\ stack = <<>>
    /\ \E c \in Completions :
          ana = [EnterAnalyze(Val(code_repo)) EXCEPT
                    !.state = "strip", !.completion = c]
    /\ remediations = <<>>
    /\ cnb = NoCnb
    /\ runs = 1

SpecRemediate == InitRemediate /\ [][remediate_code_strip]_vars

-----------------------------------------------------------------------------
(* create_new_branch, lines 117-143.  cnb.state names the next request.    *)

\* a is b or one of b's ancestors
RECURSIVE IsAncestor(_, _)
IsAncestor(a, b) ==
    a = b \/ \E i \in 1..Len(b.parents) : IsAncestor(a, b.parents[i])

\* what reading a key of a non-success response's body raises: the body is
\* the service's error object, without the key, or is not JSON at all
BadBody(key) == {Exc("KeyError", key), Exc("JSONDecodeError", "Expecting value")}

\* lines 118-123
EnterCnb(repo_link, remediated, base_branch, new_branch_name) ==
    [state |-> "base_ref", repo_link |-> repo_link,
     remediations |-> remediated, base_branch |-> base_branch,
     new_branch_name |-> new_branch_name, base_commit |-> None,
     todo |-> remediated, blobs |-> <<>>, base_tree_sha |-> None,
     new_tree_sha |-> None, new_commit_sha |-> None]

CnbRaise(e) ==
    /\ exc' = e
    /\ cnb' = [cnb EXCEPT !.state = "raised"]
    /\ pc' = "cnb_exc"

\* line 124: the base branch's commit is read from the response's body
cnb_base_ref ==
    /\ pc = "cnb"
    /\ cnb.state = "base_ref"
    /\ \E ok \in {b \in BOOLEAN : b => HasRef(host, cnb.base_branch)} :
          /\ log' = Append(log, Req(124, "GET ref", cnb.base_branch, ok))
          /\ IF ok
             THEN /\ cnb' = [cnb EXCEPT
                               !.state = "guard",
                               !.base_commit = Some(host.refs[cnb.base_branch])]
                  /\ UNCHANGED <<pc, exc>>
             ELSE \E e \in BadBody("'object'") : CnbRaise(e)
    /\ UNCHANGED <<event, locals, response, host, stack, code_repo, ana,
                   remediations, runs>>

\* a guard that looks the ref up and goes on whatever the status
cnb_guard_unchecked ==
    /\ pc = "cnb"
    /\ cnb.state = "guard"
    /\ \E ok \in {b \in BOOLEAN : b => HasRef(host, cnb.new_branch_name)} :
          log' = Append(log, Req(125, "GET ref", cnb.new_branch_name, ok))
    /\ cnb' = [cnb EXCEPT !.state = "create_ref"]
    /\ UNCHANGED <<pc, exc, event, locals, response, host, stack, code_repo,
                   ana, remediations, runs>>

\* lines 125-126: status 200 for the new branch's ref raises ValueError
cnb_guard ==
    /\ pc = "cnb"
    /\ cnb.state = "guard"
    /\ \E ok \in {b \in BOOLEAN : b => HasRef(host, cnb.new_branch_name)} :
          /\ log' = Append(log, Req(125, "GET ref", cnb.new_branch_name, ok))
          /\ IF ok
             THEN CnbRaise(Exc("ValueError", "Branch already exists."))
             ELSE /\ cnb' = [cnb EXCEPT !.state = "create_ref"]
                  /\ UNCHANGED <<pc, exc>>
    /\ UNCHANGED <<event, locals, response, host, stack, code_repo, ana,
                   remediations, runs>>

\* line 127: the response to the ref's creation is not looked at
cnb_create_ref ==
    /\ pc = "cnb"
    /\ cnb.state = "create_ref"
    /\ \E ok \in {b \in BOOLEAN : b => ~HasRef(host, cnb.new_branch_name)} :
          /\ log' = Append(log, Req(127, "POST ref", cnb.new_branch_name, ok))
          /\ host' = IF ok
                     THEN [host EXCEPT !.refs =
                             [b \in DOMAIN @ \cup {cnb.new_branch_name} |->
                                 IF b = cnb.new_branch_name
                                 THEN Val(cnb.base_commit) ELSE @[b]]]
                     ELSE host
    /\ cnb' = [cnb EXCEPT !.state = "blobs"]
    /\ UNCHANGED <<pc, event, locals, exc, response, stack, code_repo, ana,
                   remediations, runs>>

\* lines 130-136: one blob per remediated file, its sha read from the body
cnb_blob ==
    /\ pc = "cnb"
    /\ cnb.state = "blobs"
    /\ cnb.todo # <<>>
    /\ LET file_path == Head(cnb.todo)[1]
           remediated_code == Head(cnb.todo)[2]
       IN \E ok \in BOOLEAN :
             /\ log' = Append(log, Req(135, "POST blob", file_path, ok))
             /\ IF ok
                THEN /\ host' = [host EXCEPT !.blobs = @ \cup {remediated_code}]
                     /\ cnb' = [cnb EXCEPT
                                  !.todo = Tail(@),
                                  !.blobs = Append(@, [path |-> file_path,
                                                       sha |-> remediated_code])]
                     /\ UNCHANGED <<pc, exc>>
                ELSE /\ \E e \in BadBody("'sha'") : CnbRaise(e)
                     /\ UNCHANGED host
    /\ UNCHANGED <<event, locals, response, stack, code_repo, ana,
                   remediations, runs>>

\* line 138: the base commit's tree
cnb_base_tree ==
    /\ pc = "cnb"
    /\ cnb.state = "blobs"
    /\ cnb.todo = <<>>
    /\ \E ok \in BOOLEAN :
          /\ log' = Append(log, Req(138, "GET tree", <<>>, ok))
          /\ IF ok
             THEN /\ cnb' = [cnb EXCEPT
                               !.state = "tree",
                               !.base_tree_sha = Some(Val(cnb.base_commit).tree)]
                  /\ UNCHANGED <<pc, exc>>
             ELSE \E e \in BadBody("'sha'") : CnbRaise(e)
    /\ UNCHANGED <<event, locals, response, host, stack, code_repo, ana,
                   remediations, runs>>

\* line 139: the new tree, the blobs layered on the base tree
cnb_tree ==
    /\ pc = "cnb"
    /\ cnb.state = "tree"
    /\ \E ok \in BOOLEAN :
          /\ log' = Append(log, Req(139, "POST tree", <<>>, ok))
          /\ IF ok
             THEN LET t == LayerTree(Val(cnb.base_tree_sha), cnb.blobs)
                  IN /\ host' = [host EXCEPT !.trees = @ \cup {t}]
                     /\ cnb' = [cnb EXCEPT !.state = "commit",
                                           !.new_tree_sha = Some(t)]
                     /\ UNCHANGED <<pc, exc>>
             ELSE /\ \E e \in BadBody("'sha'") : CnbRaise(e)
                  /\ UNCHANGED host
    /\ UNCHANGED <<event, locals, response, stack, code_repo, ana,
                   remediations, runs>>

\* the commit object line 140 asks for; when stands for its timestamp
NewCommit(tree, parent, h) ==
    [tree |-> tree, parents |-> <<parent>>, message |-> "Remediated code",
     when |-> Cardinality(h.commits)]

\* line 140: the new commit, on the new tree, its parent the base commit
cnb_commit ==
    /\ pc = "cnb"
    /\ cnb.state = "commit"
    /\ \E ok \in BOOLEAN :
          /\ log' = Append(log, Req(140, "POST commit", <<>>, ok))
          /\ IF ok
             THEN LET c == NewCommit(Val(cnb.new_tree_sha),
                                     Val(cnb.base_commit), host)
                  IN /\ host' = [host EXCEPT !.commits = @ \cup {c}]
                     /\ cnb' = [cnb EXCEPT !.state = "update_ref",
                                           !.new_commit_sha = Some(c)]
                     /\ UNCHANGED <<pc, exc>>
             ELSE /\ \E e \in BadBody("'sha'") : CnbRaise(e)
                  /\ UNCHANGED host
    /\ UNCHANGED <<event, locals, response, stack, code_repo, ana,
                   remediations, runs>>

\* the service moves a ref, without force, only forward
CanUpdateRef(h, name, commit) ==
    HasRef(h, name) /\ IsAncestor(h.refs[name], commit)

\* lines 141-143: the ref's update, its response not looked at, and the return
cnb_update_ref ==
    /\ pc = "cnb"
    /\ cnb.state = "update_ref"
    /\ \E ok \in {b \in BOOLEAN :
                     b => CanUpdateRef(host, cnb.new_branch_name,
                                       Val(cnb.new_commit_sha))} :
          /\ log' = Append(log, Req(141, "PATCH ref", cnb.new_branch_name, ok))
          /\ host' = IF ok
                     THEN [host EXCEPT !.refs[cnb.new_branch_name] =
                                           Val(cnb.new_commit_sha)]
                     ELSE host
    /\ cnb' = [cnb EXCEPT !.state = "returned"]
    /\ pc' = "cnb_ret"
    /\ UNCHANGED <<event, locals, exc, response, stack, code_repo, ana,
                   remediations, runs>>

create_new_branch ==
    \/ cnb_base_ref
    \/ cnb_guard
    \/ cnb_create_ref
    \/ cnb_blob
    \/ cnb_base_tree
    \/ cnb_tree
    \/ cnb_commit
    \/ cnb_update_ref

\* the same request is sent again to create_new_branch after it has ended
cnb_again ==
    /\ pc \in {"cnb_ret", "cnb_exc"}
    /\ runs < MaxRuns
    /\ runs' = runs + 1
    /\ pc' = "cnb"
    /\ exc' = NoExc
    /\ log' = <<>>
    /\ cnb' = EnterCnb(cnb.repo_link, cnb.remediations, cnb.base_branch,
                       cnb.new_branch_name)
    /\ UNCHANGED <<event, locals, response, host, stack, code_repo, ana,
                   remediations>>

\* files of the repositories create_new_branch is called on
PublishPaths ==
    { <<"b">>, <<"a", "/", "m">>, <<"a", "/", "b", "/", "a", ".", "m">> }

PublishFileSets == SubsetsUpTo(PublishPaths, MaxFiles) \ {{}}

RemediatedTexts == {StripRemediation(t) : t \in RemediationTexts}

\* a dict of the keys K with the values f gives them
DictOf(K, f) == [i \in 1..Cardinality(K) |-> <<SetToSeq(K)[i], f[SetToSeq(K)[i]]>>]

\* the RemediationMaps over files of S
RemediationMaps(S) ==
    UNION { {DictOf(K, f) : f \in [K -> RemediatedTexts]} : K \in SUBSET S }

\* create_new_branch called on its own
InitPublish ==
    /\ pc = "cnb"
    /\ event = NoEvent
    /\ \E name \in {"fix", "main"} :
          locals = Locals(Some(RepoLink), "main", Some(<<>>), {}, name)
    /\ exc = NoExc
    /\ response = None
    /\ log = <<>>
    /\ \E S \in PublishFileSets :
          /\ host = HostWith(S)
          /\ \E m \in RemediationMaps(S) : remediations = m
    /\ stack = <<>>
    /\ code_repo = None
    /\ ana = NoAna
    /\ cnb = EnterCnb(locals.repo_link, remediations, locals.branch,
                      locals.new_branch_name)
    /\ runs = 1

SpecPublish == InitPublish /\ [][create_new_branch \/ cnb_again]_vars

-----------------------------------------------------------------------------
(* lambda_handler, lines 145-225 *)

EventKeys == {"agent", "actionGroup", "function", "messageVersion"}

Param(name, value) == [name |-> name, value |-> value]

\* line 152: {param["name"]: param["value"] for param in parameters}
RECURSIVE Properties(_)
Properties(parameters) ==
    IF parameters = <<>> THEN <<>>
    ELSE Put(Properties(SubSeq(parameters, 1, Len(parameters) - 1)),
             parameters[Len(parameters)].name,
             parameters[Len(parameters)].value)

\* properties.get(name)
PropGet(properties, name) ==
    IF name \in Keys(properties) THEN Some(Get(properties, name)) ELSE None

\* a name as an f-string renders it
Str(o) == IF o = None THEN "None" ELSE Val(o)

\* lines 147-149: the first of the three keys the event lacks, if any
FirstMissing(keys) ==
    IF "agent" \notin keys THEN Some("agent")
    ELSE IF "actionGroup" \notin keys THEN Some("actionGroup")
    ELSE IF "function" \notin keys THEN Some("function")
    ELSE None

\* the names lines 147-149 have assigned when the key missing is met
BoundBefore(missing) ==
    IF missing = Some("agent") THEN {}
    ELSE IF missing = Some("actionGroup") THEN {"agent"}
    ELSE IF missing = Some("function") THEN {"agent", "actionGroup"}
    ELSE {"agent", "actionGroup", "function"}

\* lines 147-160: the event is read and fetch_repository_contents is called
lh_start ==
    /\ pc = "lh"
    /\ LET missing == FirstMissing(event.keys)
           properties == Properties(event.parameters)
           folders == PropGet(properties, "folders_to_exclude")
       IN IF missing # None
          THEN /\ locals' = [locals EXCEPT !.bound = BoundBefore(missing)]
               /\ exc' = Exc("KeyError", "'" \o Val(missing) \o "'")
               /\ pc' = "lh_except"
               /\ UNCHANGED stack
          ELSE /\ locals' =
                    [bound |-> BoundBefore(missing),
                     repo_link |-> PropGet(properties, "repository_url"),
                     branch |-> Str(PropGet(properties, "branch_name")),
                     non_code_exts |->
                         PropGet(properties, "file_extensions_to_exclude"),
                     exclude_folders |->
                         IF folders = None THEN {} ELSE Val(folders),
                     new_branch_name |->
                         Str(PropGet(properties, "new_remediated_branch_name"))]
               /\ stack' = <<Frame(locals'.repo_link, locals'.branch, <<>>,
                                   locals'.exclude_folders)>>
               /\ pc' = "fetch"
               /\ UNCHANGED exc
    /\ UNCHANGED <<event, response, log, host, code_repo, ana, remediations,
                   cnb, runs>>

\* line 161: analyze_and_remediate_code is called on the FileMap
lh_call_analyze ==
    /\ pc = "fetch_ret"
    /\ ana' = EnterAnalyze(Val(code_repo))
    /\ pc' = "ana"
    /\ UNCHANGED <<event, locals, exc, response, log, host, stack, code_repo,
                   remediations, cnb, runs>>

\* lines 163-170: create_new_branch is called on the RemediationMap
lh_call_publish ==
    /\ pc = "ana_ret"
    /\ cnb' = EnterCnb(locals.repo_link, remediations, locals.branch,
                       locals.new_branch_name)
    /\ pc' = "cnb"
    /\ UNCHANGED <<event, locals, exc, response, log, host, stack, code_repo,
                   ana, remediations, runs>>

\* the envelope of lines 179-188, 200-207 and 217-224
Envelope(body) ==
    [actionGroup |-> "actionGroup", function |-> "function", body |-> body,
     messageVersion |-> "messageVersion"]

\* lines 172-191: the success response; line 188 reads event['messageVersion']
lh_success ==
    /\ pc = "cnb_ret"
    /\ IF "messageVersion" \in event.keys
       THEN /\ response' = Some(Envelope(<<cnb.new_branch_name>>))
            /\ pc' = "lh_ret"
            /\ UNCHANGED exc
       ELSE /\ exc' = Exc("KeyError", "'messageVersion'")
            /\ pc' = "lh_except"
            /\ UNCHANGED response
    /\ UNCHANGED <<event, locals, log, host, stack, code_repo, ana,
                   remediations, cnb, runs>>

\* what an except branch does after building its body: it reads actionGroup
\* and function, which are unbound if line 147, 148 or 149 raised, and
\* event['messageVersion'], and raises what that raises
Respond(body) ==
    IF "actionGroup" \notin locals.bound
    THEN /\ exc' = Exc("UnboundLocalError", "actionGroup")
         /\ pc' = "lh_raised"
         /\ UNCHANGED response
    ELSE IF "function" \notin locals.bound
    THEN /\ exc' = Exc("UnboundLocalError", "function")
         /\ pc' = "lh_raised"
         /\ UNCHANGED response
    ELSE IF "messageVersion" \notin event.keys
    THEN /\ exc' = Exc("KeyError", "'messageVersion'")
         /\ pc' = "lh_raised"
         /\ UNCHANGED response
    ELSE /\ response' = Some(Envelope(body))
         /\ pc' = "lh_ret"
         /\ exc' = NoExc

Caught == pc \in {"lh_except", "fetch_exc", "ana_exc", "cnb_exc"}

\* lines 193-208
lh_except_KeyError ==
    /\ Caught
    /\ exc.type = "KeyError"
    /\ Respond(<<"Missing required information: ", exc.msg>>)
    /\ UNCHANGED <<event, locals, log, host, stack, code_repo, ana,
                   remediations, cnb, runs>>

\* lines 210-225
lh_except_Exception ==
    /\ Caught
    /\ exc.type # "KeyError"
    /\ Respond(<<"Error: ", exc.msg>>)
    /\ UNCHANGED <<event, locals, log, host, stack, code_repo, ana,
                   remediations, cnb, runs>>

lambda_handler ==
    \/ lh_start
    \/ lh_call_analyze
    \/ lh_call_publish
    \/ lh_success
    \/ lh_except_KeyError
    \/ lh_except_Exception

\* files of the repositories the handler is invoked on
HandlerPaths ==
    { <<"a", ".", "m">>, <<"b", "/", "m">>, <<"a", "/", "b", "/", "b">> }

HandlerFileSets == SubsetsUpTo(HandlerPaths, MaxFiles) \ {{}}

\* the entry of an optional parameter: none when it is left out
Opt(name, o) == IF o = None THEN <<>> ELSE <<Param(name, Val(o))>>

\* the parameter lists of the events: the five parameters, with or without
\* repository_url and file_extensions_to_exclude
ParameterLists ==
    { Opt("repository_url", link)
        \o <<Param("branch_name", "main")>>
        \o Opt("file_extensions_to_exclude", exts)
        \o <<Param("folders_to_exclude", folders),
             Param("new_remediated_branch_name", "fix")>> :
      link \in {Some(RepoLink), None},
      exts \in {Some(<< <<".", "m">> >>), Some(<<>>), None},
      folders \in { {}, {<<"b">>} } }

Init ==
    /\ pc = "lh"
    /\ \E keys \in SUBSET EventKeys : \E ps \in ParameterLists :
          event = [keys |-> keys, parameters |-> ps]
    /\ locals = Locals(None, "None", None, {}, "None")
    /\ exc = NoExc
    /\ response = None
    /\ log = <<>>
    /\ \E S \in HandlerFileSets : host = HostWith(S)
    /\ stack = <<>>
    /\ code_repo = None
    /\ ana = NoAna
    /\ remediations = <<>>
    /\ cnb = NoCnb
    /\ runs = 1

Next ==
    \/ lambda_handler
    \/ fetch_repository_contents
    \/ analyze_and_remediate_code
    \/ create_new_branch

Spec == Init /\ [][Next]_vars

-----------------------------------------------------------------------------
(* Claims *)

Body == Val(response).body

AllParameters ==
    {"repository_url", "branch_name", "file_extensions_to_exclude",
     "folders_to_exclude", "new_remediated_branch_name"}

ParameterNames == {event.parameters[i].name : i \in 1..Len(event.parameters)}

\* C1: lambda_handler returns a response envelope and never raises, whatever
\* the event (also one that lacks agent, actionGroup, function or
\* messageVersion) and whatever fails downstream
C1_AlwaysResponds ==
    /\ pc # "lh_raised"
    /\ pc = "lh_ret" => response # None

\* C2: with every key of the event present and every parameter but
\* repository_url, the response's body says "Missing required information",
\* names 'repository_url', and no hosting or model request was made
C2_MissingRepositoryUrl ==
    ( /\ pc = "lh_ret"
      /\ event.keys = EventKeys
      /\ ParameterNames = AllParameters \ {"repository_url"} )
    => /\ Body[1] = "Missing required information: "
       /\ Body[2] = "'repository_url'"
       /\ log = <<>>

\* C4: a fetch in which a listing or a download got a non-success status
\* returns no FileMap
C4_FailFast ==
    pc = "fetch_ret" => \A i \in 1..Len(log) : log[i].ok

\* n is the name of a directory above file f: f holds n followed by "/",
\* at its start or after a "/"
HasAncestorNamed(f, n) ==
    \E i \in 1..(Len(f) - Len(n)) :
        /\ SubSeq(f, i, i + Len(n)) = n \o <<"/">>
        /\ i = 1 \/ f[i - 1] = "/"

\* the files of the served tree outside every excluded folder
FilesOutside(tree, exclude_folders) ==
    {f \in DOMAIN tree : \A n \in exclude_folders : ~HasAncestorNamed(f, n)}

\* C6: the FileMap fetch_repository_contents returns has as keys exactly the
\* files with no ancestor directory whose name is excluded, at every depth
C6_KeysAreFilesOutsideExcluded ==
    pc = "fetch_ret" =>
        Keys(Val(code_repo)) =
            FilesOutside(ServedTree(locals.branch), locals.exclude_folders)

\* C6's case: a file three levels down under an excluded folder is left out,
\* and a file whose own name is that of the excluded folder is kept
C6_Witness ==
    /\ pc = "fetch_ret"
    /\ locals.exclude_folders = {<<"b">>}
    /\ \E f \in DOMAIN ServedTree(locals.branch) :
          Len(Split(f)) >= 3 /\ f \notin Keys(Val(code_repo))
    /\ <<"a", "/", "b">> \in Keys(Val(code_repo))

\* p ends with the suffix e
HasSuffix(p, e) == \E k \in 0..Len(p) : SubSeq(p, k + 1, Len(p)) = e

\* C7: when analyze_and_remediate_code returns, the RemediationMap's keys are
\* exactly the FileMap's paths that end with none of the excluded suffixes
C7_KeysAreCodeFiles ==
    (pc = "ana_ret" /\ locals.non_code_exts # None) =>
        Keys(remediations) =
            {p \in Keys(Val(code_repo)) :
                \A i \in 1..Len(Val(locals.non_code_exts)) :
                    ~HasSuffix(p, Val(locals.non_code_exts)[i])}

\* C7's case: with [".m"] excluded, a path ending in .m is left out and a
\* path ending in m, not in .m, is kept
C7_Witness ==
    /\ pc = "ana_ret"
    /\ locals.non_code_exts = Some(<< <<".", "m">> >>)
    /\ \E p \in Keys(Val(code_repo)) :
          HasSuffix(p, <<".", "m">>) /\ p \notin Keys(remediations)
    /\ \E p \in Keys(remediations) : HasSuffix(p, <<"m">>)

\* the lookup of the new branch's ref, in this run's log
IsGuard(i) == log[i].line = 125

\* the lookup of the new branch's ref returned success in this run
GuardFound ==
    /\ cnb.state # "idle"
    /\ \E i \in 1..Len(log) : IsGuard(i) /\ log[i].ok

\* C3: when the lookup of the new branch's ref returns success, the call
\* fails with an error and has issued no write request, and no step of that
\* run changes the repository: a second run after a successful one leaves it
\* as it was
C3_ExistingBranchNoWrite ==
    /\ [](GuardFound => /\ pc = "cnb_exc"
                        /\ exc.type = "ValueError"
                        /\ Count(HostWrites) = 0)
    /\ [][GuardFound' => host' = host]_vars
    /\ [][(pc = "cnb" /\ cnb.state = "base_ref") => host' = host]_vars

\* C3's case: the second run, after a first that moved the new ref to its
\* commit, has met the guard
C3_Witness ==
    /\ runs = 2
    /\ GuardFound
    /\ pc = "cnb_exc"
    /\ cnb.new_branch_name = "fix"
    /\ host.refs["fix"].parents = <<host.refs["main"]>>

\* the publishing steps of this run: every request but the guard's lookup
Steps == {i \in 1..Len(log) : ~IsGuard(i)}

AllSucceeded == \A i \in Steps : log[i].ok

\* C5: create_new_branch returns only if every publishing step got a success
\* response, and then the new ref points at the new commit
C5_ReturnsOnlyIfEveryStepSucceeded ==
    pc = "cnb_ret" =>
        /\ AllSucceeded
        /\ HasRef(host, cnb.new_branch_name)
        /\ host.refs[cnb.new_branch_name] = Val(cnb.new_commit_sha)

\* the base tree with each remediated path holding its remediated text
Overlay(tree, remediated) ==
    [p \in DOMAIN tree \cup Keys(remediated) |->
        IF p \in Keys(remediated) THEN Get(remediated, p) ELSE tree[p]]

\* the write requests of a run in which nothing stops it
ExpectedWrites(n) ==
    <<"POST ref">> \o [i \in 1..n |-> "POST blob"]
        \o <<"POST tree", "POST commit", "PATCH ref">>

WriteOps ==
    LET w == SelectSeq(log, LAMBDA r : r.op \in HostWrites)
    IN [i \in 1..Len(w) |-> w[i].op]

\* C9: when every request succeeds, create_new_branch ends with the new ref
\* on a commit that did not exist before, whose only parent is the base
\* branch's commit and whose tree is the base tree with each remediated path
\* replaced; until its update the new ref points at the base commit, and the
\* writes come in the order ref, blobs, tree, commit, ref update
C9_PublishesOnBase ==
    /\ []((pc = "cnb_ret" /\ AllSucceeded) =>
            LET c == host.refs[cnb.new_branch_name]
                base == Val(cnb.base_commit)
            IN /\ c = Val(cnb.new_commit_sha)
               /\ c.parents = <<base>>
               /\ c.tree = Overlay(base.tree, cnb.remediations)
               /\ base = host.refs[cnb.base_branch])
    /\ []((cnb.state \in {"blobs", "tree", "commit", "update_ref"}
              /\ AllSucceeded) =>
            host.refs[cnb.new_branch_name] = Val(cnb.base_commit))
    /\ [](cnb.state # "idle" =>
            IsPrefix(WriteOps, ExpectedWrites(Len(cnb.remediations))))
    /\ [][(cnb.state = "commit" /\ cnb'.state = "update_ref") =>
            Val(cnb'.new_commit_sha) \notin host.commits]_vars

\* C9's case: a run without failures has returned, one path replaced and
\* another left as the base tree has it
C9_Witness ==
    /\ pc = "cnb_ret"
    /\ AllSucceeded
    /\ cnb.new_branch_name = "fix"
    /\ LET t == host.refs["fix"].tree
       IN /\ \E p \in DOMAIN t : t[p] = Original
          /\ \E p \in DOMAIN t : t[p] # Original

\* the files of the FileMap that are not left out as non-code
CodeFiles ==
    {p \in Keys(Val(code_repo)) :
        \/ locals.non_code_exts = None
        \/ \A i \in 1..Len(Val(locals.non_code_exts)) :
               ~HasSuffix(p, Val(locals.non_code_exts)[i])}

\* p's analysis call, and after it p's remediation call, have returned
Remediated(p) ==
    \E i \in 1..Len(log) : \E j \in (i + 1)..Len(log) :
        /\ log[i] = Req(55, "invoke analyze", p, TRUE)
        /\ log[j] = Req(84, "invoke remediate", p, TRUE)

\* the fetch raised: a listing failed, or there was no repository link
FetchRaised ==
    \/ \E i \in 1..Len(log) : log[i].op = "GET contents" /\ ~log[i].ok
    \/ pc \notin {"lh", "fetch"} /\ "function" \in locals.bound
          /\ locals.repo_link = None

ModelRaised == \E i \in 1..Len(log) : log[i].op \in ModelCalls /\ ~log[i].ok

\* the three stages in their order, and what a failure of the first two does
StagesInOrder ==
    /\ Count(HostWrites) > 0 =>
          /\ code_repo # None
          /\ \A p \in CodeFiles : Remediated(p)
    /\ (FetchRaised \/ ModelRaised) =>
          /\ Count(HostWrites) = 0
          /\ pc \in {"lh_ret", "lh_raised"} =>
                response # None /\ Body[1] = "Error: "

\* StagesInOrder for the events that carry messageVersion, for which the
\* except branches can build their response
StagesInOrderWithVersion == "messageVersion" \in event.keys => StagesInOrder

\* C10: no hosting write is issued before the fetch has returned and every
\* non-excluded file has had its analysis and then its remediation call; if
\* the fetch or a model call raises, no write is ever issued and the
\* response's body is an "Error: ..." text
C10_FetchAnalyzePublish == StagesInOrder

\* C8: whatever the completion, the text remediate_code stores has no code
\* fence at its start and does not hold the boilerplate phrase anywhere
C8_NoFenceNoBoilerplate ==
    \A i \in 1..Len(remediations) :
        /\ ~startswith(remediations[i][2], Fence)
        /\ ~Contains(remediations[i][2], Boilerplate)

====
